---- MODULE Spec2Model ----
(***************************************************************************)
(* Moving-average crossover strategy (src/src/lib/strategy.ts) and the     *)
(* strategy endpoint that runs it (POST /api/strategy).                    *)
(*                                                                         *)
(* Number representation.  Prices, capital and periods are integers.  A    *)
(* moving-average entry is the exact rational <<sum, period>>; null is     *)
(* <<>>.  An optional field (stopLoss?, takeProfit?, execution?) is <<>>   *)
(* when undefined and <<v>> when present.  x.toFixed(d) is modelled by     *)
(* toFixed, which returns the rounded value scaled by 10^d, so stopLoss    *)
(* and takeProfit are in hundredths and positionSize in millionths.        *)
(* riskPercent is carried in tenths of a percent (0.1 % = 1) and capital   *)
(* in tenths of a currency unit, as are the raw numbers of a request body. *)
(* Doubles are modelled by exact rationals: two averages of the small      *)
(* integers used here differ by far more than a rounding error, so every   *)
(* comparison has the result the floating-point code computes.             *)
(***************************************************************************)
EXTENDS Integers, Sequences, FiniteSets, TLC

\* ---------------------------------------------------------------- bounds
MaxCandles == 4
MaxPrice == 2
MaxPeriod == 3
MaxFetch == 6
MaxBars == 3        \* longest candle sequence with independent lows and highs
MaxXBars == 2       \* longest candle sequence with non-finite fields
MaxRuns == 2        \* strategy requests the dashboard sends

VARIABLES
    phase,       \* position of the caller of the core functions
    candles,     \* OHLCVRecord[] handed to evaluateStrategy
    config,      \* StrategyConfig handed to evaluateStrategy
    strategy,    \* outcome of evaluateStrategy: a return or a throw
    suggestion,  \* outcome of buildOrder
    smaCall,     \* outcome of a direct simpleMovingAverage call
    env,         \* process.env as the endpoint reads it
    body,        \* request body of the POST being handled
    execution,   \* the handler's execution record
    response,    \* the NextResponse the handler answered with
    trace,       \* calls the handler made, in order
    other,       \* a second, independent evaluateStrategy call (for comparisons)
    prior,       \* what the previous request of the endpoint did
    uiMode,      \* page.tsx: the mode state, one of the parameters of a run
    autoTrading, \* page.tsx: the auto-run checkbox
    autoInterval,\* page.tsx: the selected number of minutes
    timers,      \* interval timers set and not cleared, oldest first
    runningRef,  \* page.tsx: runningRef.current
    isRunning,   \* page.tsx: the isRunning state
    logs,        \* page.tsx: the automation log, newest first
    lastResponse,\* page.tsx: the last StrategyResponse shown
    runs,        \* runStrategy calls past the guard and not yet finished
    sent,        \* number of POST /api/strategy requests sent so far
    trigger      \* the last call of runStrategy: who made it, what became of it

serverVars == <<phase, candles, config, strategy, suggestion, smaCall,
                env, body, execution, response, trace>>

dashVars == <<uiMode, autoTrading, autoInterval, timers, runningRef, isRunning,
              logs, lastResponse, runs, sent, trigger>>

extVars == <<other, prior, dashVars>>

vars == <<serverVars, extVars>>

NoOther == [called |-> FALSE]
NoPrior == [action |-> "none"]

NoTrigger == [source |-> "none", outcome |-> "none"]

\* the state of Home() at its first render (page.tsx:130-143, 194)
DashIdle ==
    /\ uiMode = "paper"
    /\ autoTrading = FALSE
    /\ autoInterval = 5
    /\ timers = <<>>
    /\ runningRef = FALSE
    /\ isRunning = FALSE
    /\ logs = <<>>
    /\ lastResponse = <<>>
    /\ runs = <<>>
    /\ sent = 0
    /\ trigger = NoTrigger

ExtInit ==
    /\ other = NoOther
    /\ prior = NoPrior
    /\ DashIdle

\* ------------------------------------------------------- value encodings
Null == <<>>
Undefined == <<>>
Some(x) == <<x>>
NotCalled == [kind |-> "none"]
Throw(msg) == [kind |-> "throw", message |-> msg]
Return(v) == [kind |-> "return", value |-> v]

\* the three non-finite numbers of JavaScript, as integers no finite value of
\* the model reaches; the infinities keep their place in the integer order
NaN == 2000000000
PosInf == 1000000000
NegInf == 0 - PosInf

\* Number.isFinite
isFinite(x) == x \notin {NaN, PosInf, NegInf}

\* a + b
xAdd(a, b) ==
    IF a = NaN \/ b = NaN THEN NaN
    ELSE IF a = PosInf THEN (IF b = NegInf THEN NaN ELSE PosInf)
    ELSE IF a = NegInf THEN (IF b = PosInf THEN NaN ELSE NegInf)
    ELSE IF ~isFinite(b) THEN b
    ELSE a + b

\* x * k for a finite k > 0
xScale(x, k) == IF isFinite(x) THEN x * k ELSE x

\* a > b, a < b, a <= b, a >= b: every comparison with NaN is false
xGt(a, b) == a # NaN /\ b # NaN /\ a > b
xLt(a, b) == a # NaN /\ b # NaN /\ a < b
xLe(a, b) == a # NaN /\ b # NaN /\ a <= b
xGe(a, b) == a # NaN /\ b # NaN /\ a >= b

RECURSIVE roundDigits(_, _, _, _)
\* decimal expansion of q + r/den (0 <= r < den) to the given number of digits,
\* digit by digit, rounded to nearest with a tie going up
roundDigits(q, r, den, digits) ==
    IF digits = 0 THEN (IF 2 * r >= den THEN q + 1 ELSE q)
    ELSE roundDigits(q * 10 + ((r * 10) \div den), (r * 10) % den, den, digits - 1)

\* (num/den).toFixed(digits), num >= 0, den > 0, as an integer count of 10^-digits
toFixedAbs(num, den, digits) == roundDigits(num \div den, num % den, den, digits)

\* toFixed keeps the sign and rounds the magnitude; NaN and the infinities
\* print as themselves and Number() reads them back
toFixed(num, den, digits) ==
    IF ~isFinite(num) THEN num
    ELSE IF num < 0 THEN 0 - toFixedAbs(0 - num, den, digits)
    ELSE toFixedAbs(num, den, digits)

\* comparisons of sum/period values <<num, den>>, den > 0; a non-finite sum
\* makes the quotient the same non-finite number
BothFinite(a, b) == isFinite(a[1]) /\ isFinite(b[1])
RatGt(a, b) == IF BothFinite(a, b) THEN a[1] * b[2] > b[1] * a[2] ELSE xGt(a[1], b[1])
RatLt(a, b) == IF BothFinite(a, b) THEN a[1] * b[2] < b[1] * a[2] ELSE xLt(a[1], b[1])
RatLe(a, b) == IF BothFinite(a, b) THEN a[1] * b[2] <= b[1] * a[2] ELSE xLe(a[1], b[1])
RatGe(a, b) == IF BothFinite(a, b) THEN a[1] * b[2] >= b[1] * a[2] ELSE xGe(a[1], b[1])

\* ------------------------------------------------------ strategy.ts
RECURSIVE reduceSum(_, _)
\* window.reduce((acc, value) => acc + value, 0)
reduceSum(window, acc) ==
    IF window = <<>> THEN acc
    ELSE reduceSum(Tail(window), xAdd(acc, Head(window)))

\* values.slice(start, end) with 0 <= start <= end <= length (0-based, end excluded)
slice(values, start, end) == SubSeq(values, start + 1, end)

\* smaEntry averaging whatever values exist when the window is not yet full
smaEntryPartial(values, period, i) ==
    IF i + 1 < period THEN <<reduceSum(slice(values, 0, i + 1), 0), period>>
    ELSE <<reduceSum(slice(values, i + 1 - period, i + 1), 0), period>>

\* smaEntry whose window stops one value short of index i
smaEntryShort(values, period, i) ==
    IF i + 1 < period THEN Null
    ELSE <<reduceSum(slice(values, i + 1 - period, i), 0), period>>

\* one iteration of the loop of simpleMovingAverage, i is the 0-based index
smaEntry(values, period, i) ==
    IF i + 1 < period THEN Null
    ELSE <<reduceSum(slice(values, i + 1 - period, i + 1), 0), period>>

\* simpleMovingAverage with the period check made inside the loop
simpleMovingAverageLazyCheck(values, period) ==
    IF period <= 0 /\ Len(values) > 0 THEN Throw("SMA period must be greater than zero")
    ELSE Return([k \in 1..Len(values) |-> smaEntry(values, period, k - 1)])

simpleMovingAverage(values, period) ==
    IF period <= 0 THEN Throw("SMA period must be greater than zero")
    ELSE Return([k \in 1..Len(values) |-> smaEntry(values, period, k - 1)])

\* array[i] ?? null for a 0-based index that may be out of range
atOrNull(arr, i) == IF i >= 0 /\ i < Len(arr) THEN arr[i + 1] ELSE Null

\* decide with a strict comparison at the previous index of the bullish test
decideStrict(lastFast, lastSlow, prevFast, prevSlow) ==
    IF lastFast # Null /\ lastSlow # Null THEN
        IF prevFast # Null /\ prevSlow # Null
           /\ RatLt(prevFast, prevSlow) /\ RatGt(lastFast, lastSlow)
        THEN [action |-> "buy",
              reason |-> <<"Bullish crossover detected",
                           toFixed(lastFast[1], lastFast[2], 2),
                           toFixed(lastSlow[1], lastSlow[2], 2)>>]
        ELSE IF prevFast # Null /\ prevSlow # Null
           /\ RatGe(prevFast, prevSlow) /\ RatLt(lastFast, lastSlow)
        THEN [action |-> "sell",
              reason |-> <<"Bearish crossover detected",
                           toFixed(lastFast[1], lastFast[2], 2),
                           toFixed(lastSlow[1], lastSlow[2], 2)>>]
        ELSE IF RatGt(lastFast, lastSlow)
        THEN [action |-> "buy",
              reason |-> <<"Fast MA remains above slow MA (trend-following continuation).">>]
        ELSE IF RatLt(lastFast, lastSlow)
        THEN [action |-> "sell",
              reason |-> <<"Fast MA remains below slow MA (trend-following continuation).">>]
        ELSE [action |-> "hold", reason |-> <<"No actionable crossover detected.">>]
    ELSE [action |-> "hold", reason |-> <<"No actionable crossover detected.">>]

\* the if / else-if chain that picks action and reason
\* decide that signals on a crossover only and holds while a trend persists
decideCrossoverOnly(lastFast, lastSlow, prevFast, prevSlow) ==
    IF lastFast # Null /\ lastSlow # Null /\ prevFast # Null /\ prevSlow # Null THEN
        IF RatLe(prevFast, prevSlow) /\ RatGt(lastFast, lastSlow)
        THEN [action |-> "buy",
              reason |-> <<"Bullish crossover detected",
                           toFixed(lastFast[1], lastFast[2], 2),
                           toFixed(lastSlow[1], lastSlow[2], 2)>>]
        ELSE IF RatGe(prevFast, prevSlow) /\ RatLt(lastFast, lastSlow)
        THEN [action |-> "sell",
              reason |-> <<"Bearish crossover detected",
                           toFixed(lastFast[1], lastFast[2], 2),
                           toFixed(lastSlow[1], lastSlow[2], 2)>>]
        ELSE [action |-> "hold", reason |-> <<"No actionable crossover detected.">>]
    ELSE [action |-> "hold", reason |-> <<"No actionable crossover detected.">>]

decide(lastFast, lastSlow, prevFast, prevSlow) ==
    IF lastFast # Null /\ lastSlow # Null THEN
        IF prevFast # Null /\ prevSlow # Null
           /\ RatLe(prevFast, prevSlow) /\ RatGt(lastFast, lastSlow)
        THEN [action |-> "buy",
              reason |-> <<"Bullish crossover detected",
                           toFixed(lastFast[1], lastFast[2], 2),
                           toFixed(lastSlow[1], lastSlow[2], 2)>>]
        ELSE IF prevFast # Null /\ prevSlow # Null
           /\ RatGe(prevFast, prevSlow) /\ RatLt(lastFast, lastSlow)
        THEN [action |-> "sell",
              reason |-> <<"Bearish crossover detected",
                           toFixed(lastFast[1], lastFast[2], 2),
                           toFixed(lastSlow[1], lastSlow[2], 2)>>]
        ELSE IF RatGt(lastFast, lastSlow)
        THEN [action |-> "buy",
              reason |-> <<"Fast MA remains above slow MA (trend-following continuation).">>]
        ELSE IF RatLt(lastFast, lastSlow)
        THEN [action |-> "sell",
              reason |-> <<"Fast MA remains below slow MA (trend-following continuation).">>]
        ELSE [action |-> "hold", reason |-> <<"No actionable crossover detected.">>]
    ELSE [action |-> "hold", reason |-> <<"No actionable crossover detected.">>]

Min(a, b) == IF a < b THEN a ELSE b
Max(a, b) == IF a > b THEN a ELSE b

\* riskFraction without the upper clamp: Math.max(riskPercent / 100, 0)
riskFractionNoCap(riskPercent) == Max(riskPercent, 0)

\* riskFraction that treats a percentage above 100 as no risk at all
riskFractionWrap(riskPercent) == IF riskPercent > 1000 THEN 0 ELSE Max(riskPercent, 0)

\* Math.max(Math.min(riskPercent / 100, 1), 0) as a count of thousandths
riskFraction(riskPercent) == Max(Min(riskPercent, 1000), 0)

\* latestPrice > 0 ? Number((capitalToUse / latestPrice).toFixed(6)) : 0
\* (a finite capitalToUse divided by Infinity is 0)
positionSizeOf(cfg, latestPrice) ==
    IF xGt(latestPrice, 0)
    THEN IF isFinite(latestPrice)
         THEN toFixed(cfg.capital * riskFraction(cfg.riskPercent), 10000 * latestPrice, 6)
         ELSE 0
    ELSE 0

\* the window taken as the whole history
lastCandlesAll(cs, slowLength) == cs

\* candles.slice(-slowLength), slowLength > 0
lastCandles(cs, slowLength) ==
    IF slowLength >= Len(cs) THEN cs ELSE SubSeq(cs, Len(cs) - slowLength + 1, Len(cs))

\* Math.min(...window.map(c => c.low)) and Math.max(...window.map(c => c.high));
\* either is NaN as soon as one argument is
recentLowOf(window) ==
    IF \E i \in 1..Len(window) : window[i].low = NaN THEN NaN
    ELSE
    CHOOSE m \in {window[i].low : i \in 1..Len(window)} :
        \A j \in 1..Len(window) : m <= window[j].low
recentHighOf(window) ==
    IF \E i \in 1..Len(window) : window[i].high = NaN THEN NaN
    ELSE
    CHOOSE m \in {window[i].high : i \in 1..Len(window)} :
        \A j \in 1..Len(window) : m >= window[j].high

stopLossOf(action, recentLow, recentHigh) ==
    IF action = "buy" THEN toFixed(xScale(recentLow, 99), 100, 2)
    ELSE toFixed(xScale(recentHigh, 101), 100, 2)

takeProfitOf(action, latestPrice) ==
    IF action = "buy" THEN toFixed(xScale(latestPrice, 103), 100, 2)
    ELSE toFixed(xScale(latestPrice, 97), 100, 2)

\* a filter that drops NaN only
finiteOrUndefinedNaNOnly(x) == IF x # NaN THEN Some(x) ELSE Undefined

\* Number.isFinite(x) ? x : undefined
finiteOrUndefined(x) == IF isFinite(x) THEN Some(x) ELSE Undefined

\* the body of evaluateStrategy once both moving averages are computed
computeStrategy(cs, cfg, closes, fastMA, slowMA) ==
    LET lastIndex == Len(closes) - 1
        lastFast == fastMA[lastIndex + 1]
        lastSlow == slowMA[lastIndex + 1]
        prevFast == atOrNull(fastMA, lastIndex - 1)
        prevSlow == atOrNull(slowMA, lastIndex - 1)
        latestPrice == closes[lastIndex + 1]
        d == decide(lastFast, lastSlow, prevFast, prevSlow)
        window == lastCandles(cs, cfg.slowLength)
        stopLoss == stopLossOf(d.action, recentLowOf(window), recentHighOf(window))
        takeProfit == takeProfitOf(d.action, latestPrice)
    IN  [action |-> d.action,
         reason |-> d.reason,
         latestPrice |-> latestPrice,
         positionSize |-> positionSizeOf(cfg, latestPrice),
         stopLoss |-> finiteOrUndefined(stopLoss),
         takeProfit |-> finiteOrUndefined(takeProfit),
         fastMA |-> fastMA,
         slowMA |-> slowMA]

\* evaluateStrategy computing the moving averages before looking at the length
evaluateStrategyPeriodsFirst(cs, cfg) ==
    LET closes == [i \in 1..Len(cs) |-> cs[i].close]
        fast == simpleMovingAverage(closes, cfg.fastLength)
    IN  IF fast.kind = "throw" THEN fast
        ELSE LET slow == simpleMovingAverage(closes, cfg.slowLength)
             IN  IF slow.kind = "throw" THEN slow
                 ELSE IF Len(cs) = 0
                      THEN Throw("No OHLCV data available for strategy evaluation.")
                      ELSE Return(computeStrategy(cs, cfg, closes, fast.value, slow.value))

evaluateStrategy(cs, cfg) ==
    IF Len(cs) = 0 THEN Throw("No OHLCV data available for strategy evaluation.")
    ELSE LET closes == [i \in 1..Len(cs) |-> cs[i].close]
             fast == simpleMovingAverage(closes, cfg.fastLength)
         IN  IF fast.kind = "throw" THEN fast
             ELSE LET slow == simpleMovingAverage(closes, cfg.slowLength)
                  IN  IF slow.kind = "throw" THEN slow
                      ELSE Return(computeStrategy(cs, cfg, closes, fast.value, slow.value))

NoOrder == [side |-> "none"]

\* buildOrder that declines only the hold action
buildOrderHoldOnly(computation) ==
    IF computation.action = "hold" THEN NoOrder
    ELSE [side |-> computation.action,
          type |-> "market",
          size |-> computation.positionSize,
          price |-> computation.latestPrice,
          stopLoss |-> computation.stopLoss,
          takeProfit |-> computation.takeProfit]

buildOrder(computation) ==
    IF computation.action = "hold" \/ computation.positionSize <= 0 THEN NoOrder
    ELSE [side |-> computation.action,
          type |-> "market",
          size |-> computation.positionSize,
          price |-> computation.latestPrice,
          stopLoss |-> computation.stopLoss,
          takeProfit |-> computation.takeProfit]

\* ------------------------------------------------ inputs of the core
\* an OHLCV bar around a close price
Candle(c) == [close |-> c, low |-> c - 1, high |-> c + 1]

Prices == (0 - 1)..MaxPrice
Periods == (0 - 1)..MaxPeriod

RECURSIVE SeqsUpTo(_, _)
SeqsUpTo(S, n) ==
    IF n = 0 THEN {<<>>}
    ELSE LET shorter == SeqsUpTo(S, n - 1)
         IN  shorter \cup {Append(s, x) : s \in {t \in shorter : Len(t) = n - 1}, x \in S}

CandleSeqs == SeqsUpTo({Candle(c) : c \in Prices}, MaxCandles)

Configs ==
    [symbol : {"BTC/USDT"}, timeframe : {"1h"}, mode : {"paper"},
     fastLength : Periods, slowLength : Periods, capital : {100}, riskPercent : {5, 1000}]

\* ------------------------------------------------ ccxtClient.ts
\* process.env: a variable is <<>> when unset; the two credentials are kept
\* as "is a non-empty string"; exchangeKnown says whether CRYPTO_EXCHANGE
\* (default binance) names a class of the ccxt registry
Envs ==
    [ENABLE_LIVE_TRADING : {Some("true"), Some("false"), Undefined},
     CRYPTO_API_KEY : BOOLEAN,
     CRYPTO_API_SECRET : BOOLEAN,
     exchangeKnown : BOOLEAN]

NoEnv ==
    [ENABLE_LIVE_TRADING |-> Undefined, CRYPTO_API_KEY |-> FALSE,
     CRYPTO_API_SECRET |-> FALSE, exchangeKnown |-> TRUE]

\* createExchange demanding the credentials from every caller
createExchangeAlwaysAuth(requireAuth, e) ==
    IF ~e.CRYPTO_API_KEY \/ ~e.CRYPTO_API_SECRET
    THEN Throw("Live trading requires CRYPTO_API_KEY and CRYPTO_API_SECRET to be set.")
    ELSE IF ~e.exchangeKnown
    THEN Throw("Exchange is not available in ccxt. Check CRYPTO_EXCHANGE env.")
    ELSE Return("exchange")

createExchange(requireAuth, e) ==
    IF requireAuth /\ (~e.CRYPTO_API_KEY \/ ~e.CRYPTO_API_SECRET)
    THEN Throw("Live trading requires CRYPTO_API_KEY and CRYPTO_API_SECRET to be set.")
    ELSE IF ~e.exchangeKnown
    THEN Throw("Exchange is not available in ccxt. Check CRYPTO_EXCHANGE env.")
    ELSE Return("exchange")

\* ------------------------------------------------ strategy endpoint: schema
FastMin == 3
FastMax == 200
SlowMin == 5
SlowMax == 400
CapitalMin == 10
RiskMinTenths == 1
RiskMax == 100
MinLimit == 200

\* a JSON value of the request body; num is in tenths for a number and 0/1
\* for a boolean
RawNum(n) == [kind |-> "number", num |-> n, str |-> ""]
RawStr(t) == [kind |-> "string", num |-> 0, str |-> t]
RawBool(b) == [kind |-> "boolean", num |-> IF b THEN 1 ELSE 0, str |-> ""]
RawNull == [kind |-> "null", num |-> 0, str |-> ""]
RawMissing == [kind |-> "undefined", num |-> 0, str |-> ""]

\* Number(text) in tenths for the strings a body of this model carries;
\* <<>> is NaN
stringToNumber(t) ==
    IF t = "" THEN Some(0)
    ELSE IF t = "3" THEN Some(30)
    ELSE IF t = "2" THEN Some(20)
    ELSE Undefined

\* z.coerce.number(): Number(input), in tenths; <<>> is NaN
coerceNumber(raw) ==
    IF raw.kind = "number" THEN Some(raw.num)
    ELSE IF raw.kind = "string" THEN stringToNumber(raw.str)
    ELSE IF raw.kind = "boolean" THEN Some(raw.num * 10)
    ELSE IF raw.kind = "null" THEN Some(0)
    ELSE Undefined

\* z.string().min(1)
zString(raw) ==
    IF raw.kind = "string" /\ raw.str # "" THEN Some(raw.str) ELSE Undefined

\* zInt without the .int() refinement: a fraction is truncated, not refused
zIntNoIntegerCheck(raw, min, max) ==
    LET n == coerceNumber(raw)
    IN  IF n # Undefined /\ n[1] >= min * 10 /\ n[1] <= max * 10
        THEN Some(n[1] \div 10) ELSE Undefined

\* z.coerce.number().int().min(min).max(max); the result is the integer
zInt(raw, min, max) ==
    LET n == coerceNumber(raw)
    IN  IF n # Undefined /\ n[1] % 10 = 0 /\ n[1] >= min * 10 /\ n[1] <= max * 10
        THEN Some(n[1] \div 10) ELSE Undefined

\* z.coerce.number().min(minTenths / 10); the result stays in tenths
zNumberMin(raw, minTenths) ==
    LET n == coerceNumber(raw)
    IN  IF n # Undefined /\ n[1] >= minTenths THEN n ELSE Undefined

\* z.coerce.number().min(minTenths / 10).max(maxTenths / 10)
zNumberMinMax(raw, minTenths, maxTenths) ==
    LET n == coerceNumber(raw)
    IN  IF n # Undefined /\ n[1] >= minTenths /\ n[1] <= maxTenths THEN n ELSE Undefined

\* z.enum(["paper", "live"]).default("paper")
zMode(raw) ==
    IF raw.kind = "undefined" THEN Some("paper")
    ELSE IF raw.kind = "string" /\ raw.str \in {"paper", "live"} THEN Some(raw.str)
    ELSE Undefined

\* bodySchema.safeParse(json)
bodySchema(json) ==
    LET parsed ==
            [symbol |-> zString(json.symbol),
             timeframe |-> zString(json.timeframe),
             fastLength |-> zInt(json.fastLength, FastMin, FastMax),
             slowLength |-> zInt(json.slowLength, SlowMin, SlowMax),
             capital |-> zNumberMin(json.capital, CapitalMin * 10),
             riskPercent |-> zNumberMinMax(json.riskPercent, RiskMinTenths, RiskMax * 10),
             mode |-> zMode(json.mode)]
        issues == {f \in DOMAIN parsed : parsed[f] = Undefined}
    IN  IF issues = {}
        THEN [success |-> TRUE, data |-> [f \in DOMAIN parsed |-> parsed[f][1]], issues |-> {}]
        ELSE [success |-> FALSE, data |-> <<>>, issues |-> issues]

\* ------------------------------------------------ strategy endpoint: handler
NoBody == [malformed |-> FALSE, json |-> <<>>]
NoConfig == [mode |-> "none"]
NoResponse == [status |-> 0]
Json(status, content) == [status |-> status, body |-> content]

\* gate that lets every live order through, whatever the switch says
gateIgnoresSwitch(order, mode, switch) ==
    IF order # NoOrder /\ mode = "live" THEN "submit" ELSE "none"

\* gate that leaves no execution record when the switch is off
gateSkipsSilently(order, mode, switch) ==
    IF order # NoOrder /\ mode = "live" /\ switch = Some("true") THEN "submit" ELSE "none"

\* the two nested ifs around createOrder: what happens to the suggested order
gate(order, mode, switch) ==
    IF order # NoOrder /\ mode = "live"
    THEN (IF switch = Some("true") THEN "submit" ELSE "skip")
    ELSE "none"

\* Math.max(payload.slowLength * 4, 200)
limitOf(payload) == Max(payload.slowLength * 4, MinLimit)

\* the object of the final NextResponse.json; evaluatedAt (the clock) is left out
resultBody(payload, cs, strat, order, exec) ==
    [strategy |-> strat,
     suggestion |-> order,
     execution |-> exec,
     meta |-> [symbol |-> payload.symbol,
               timeframe |-> payload.timeframe,
               candlesUsed |-> Len(cs),
               liveTrading |-> payload.mode = "live"]]

\* the catch block of the handler
errorResponse(message) == Json(500, [error |-> message])

\* request bodies: malformed JSON, or an object whose fields are drawn from
\* values on both sides of every check of the schema
JsonBodies ==
    [symbol : {RawStr("BTC/USDT"), RawStr("")},
     timeframe : {RawStr("1h"), RawMissing},
     fastLength : {RawNum(30), RawStr("3"), RawNum(20), RawNum(35), RawNum(2010)},
     slowLength : {RawNum(50), RawNum(40), RawNum(4010)},
     capital : {RawNum(100), RawNum(99), RawNull},
     riskPercent : {RawNum(1), RawBool(TRUE), RawNum(0), RawNum(1001)},
     mode : {RawStr("paper"), RawStr("live"), RawMissing, RawStr("demo")}]

Bodies ==
    {[malformed |-> TRUE, json |-> <<>>]}
    \cup {[malformed |-> FALSE, json |-> j] : j \in JsonBodies}

\* what the exchange may return for fetchOHLCV: up to MaxFetch bars around
\* the closes 0 and 1
FetchedSeqs == SeqsUpTo({Candle(c) : c \in 0..1}, MaxFetch)

PostInit ==
    /\ phase = "idle"
    /\ env \in Envs
    /\ body = NoBody
    /\ config = NoConfig
    /\ candles = <<>>
    /\ strategy = NotCalled
    /\ suggestion = NotCalled
    /\ smaCall = NotCalled
    /\ execution = Undefined
    /\ response = NoResponse
    /\ trace = <<>>
    /\ ExtInit

\* POST up to its first suspension: request.json(), safeParse, and the call
\* of fetchOhlcv, whose createExchange() runs before fetchOHLCV is awaited
Receive ==
    /\ phase = "idle"
    /\ \E b \in Bodies :
          /\ body' = b
          /\ IF b.malformed
             THEN /\ response' = Json(400, [error |-> "Malformed JSON payload supplied."])
                  /\ phase' = "responded"
                  /\ UNCHANGED <<config, trace>>
             ELSE LET parsed == bodySchema(b.json)
                  IN  IF ~parsed.success
                      THEN /\ response' = Json(400, [error |-> "Invalid request payload",
                                                     issues |-> parsed.issues])
                           /\ phase' = "responded"
                           /\ UNCHANGED <<config, trace>>
                      ELSE LET ex == createExchange(FALSE, env)
                               call == <<"fetchOhlcv", parsed.data.symbol,
                                         parsed.data.timeframe, limitOf(parsed.data)>>
                           IN  /\ config' = parsed.data
                               /\ trace' = <<call>>
                               /\ IF ex.kind = "throw"
                                  THEN /\ response' = errorResponse(ex.message)
                                       /\ phase' = "responded"
                                  ELSE /\ response' = response
                                       /\ phase' = "fetching"
    /\ UNCHANGED <<candles, strategy, suggestion, smaCall, env, execution>>
    /\ UNCHANGED extVars

\* fetchOHLCV resolves: evaluateStrategy, buildOrder and the gate, up to the
\* response or to the await of createOrder
FetchResolves ==
    /\ phase = "fetching"
    /\ \E cs \in FetchedSeqs :
          LET strat == evaluateStrategy(cs, config)
              order == IF strat.kind = "return" THEN buildOrder(strat.value) ELSE NoOrder
              g == gate(order, config.mode, env.ENABLE_LIVE_TRADING)
              ex == createExchange(TRUE, env)
          IN  /\ candles' = cs
              /\ strategy' = strat
              /\ IF strat.kind = "throw"
                 THEN /\ suggestion' = NotCalled
                      /\ execution' = Undefined
                      /\ trace' = Append(trace, <<"evaluateStrategy">>)
                      /\ response' = errorResponse(strat.message)
                      /\ phase' = "responded"
                 ELSE /\ suggestion' = Return(order)
                      /\ IF g = "submit"
                         THEN IF ex.kind = "throw"
                              THEN /\ execution' = Undefined
                                   /\ trace' = trace \o <<<<"evaluateStrategy">>, <<"buildOrder">>,
                                                          <<"createExchange">>>>
                                   /\ response' = errorResponse(ex.message)
                                   /\ phase' = "responded"
                              ELSE /\ execution' = Undefined
                                   /\ trace' = trace \o <<<<"evaluateStrategy">>, <<"buildOrder">>,
                                                          <<"createExchange">>,
                                                          <<"createOrder", config.symbol,
                                                            order.type, order.side, order.size>>>>
                                   /\ response' = response
                                   /\ phase' = "ordering"
                         ELSE /\ execution' =
                                    IF g = "skip"
                                    THEN Some([status |-> "skipped",
                                               reason |-> "ENABLE_LIVE_TRADING is not set to true. Order not transmitted."])
                                    ELSE Undefined
                              /\ trace' = trace \o <<<<"evaluateStrategy">>, <<"buildOrder">>>>
                              /\ response' = Json(200, resultBody(config, cs, strat.value,
                                                                  order, execution'))
                              /\ phase' = "responded"
    /\ UNCHANGED <<config, smaCall, env, body>>
    /\ UNCHANGED extVars

\* fetchOHLCV rejects (network, rate limit, unknown symbol): the catch block
FetchRejects ==
    /\ phase = "fetching"
    /\ response' = errorResponse("fetchOHLCV failed")
    /\ phase' = "responded"
    /\ UNCHANGED <<candles, config, strategy, suggestion, smaCall, env, body,
                   execution, trace>>
    /\ UNCHANGED extVars

\* createOrder resolves with a result whose id is a string or is not
OrderResolves ==
    /\ phase = "ordering"
    /\ \E id \in {Some("order-1"), Undefined} :
          /\ execution' = Some([status |-> "submitted", orderId |-> id, raw |-> [id |-> id]])
          /\ response' = Json(200, resultBody(config, candles, strategy.value,
                                              suggestion.value, execution'))
    /\ phase' = "responded"
    /\ UNCHANGED <<candles, config, strategy, suggestion, smaCall, env, body, trace>>
    /\ UNCHANGED extVars

\* a catch block that answers with the error and the computation made so far
OrderRejectsWithResult ==
    /\ phase = "ordering"
    /\ response' = Json(500, [error |-> "createOrder failed",
                              strategy |-> strategy.value,
                              suggestion |-> suggestion.value])
    /\ phase' = "responded"
    /\ UNCHANGED <<candles, config, strategy, suggestion, smaCall, env, body,
                   execution, trace>>
    /\ UNCHANGED extVars

\* createOrder rejects: the catch block
OrderRejects ==
    /\ phase = "ordering"
    /\ response' = errorResponse("createOrder failed")
    /\ phase' = "responded"
    /\ UNCHANGED <<candles, config, strategy, suggestion, smaCall, env, body,
                   execution, trace>>
    /\ UNCHANGED extVars

\* the handler has answered; the next request finds nothing of this one
NextRequest ==
    /\ phase = "responded"
    /\ phase' = "idle"
    /\ body' = NoBody
    /\ config' = NoConfig
    /\ candles' = <<>>
    /\ strategy' = NotCalled
    /\ suggestion' = NotCalled
    /\ execution' = Undefined
    /\ response' = NoResponse
    /\ trace' = <<>>
    /\ UNCHANGED <<smaCall, env>>
    /\ UNCHANGED extVars

PostNext ==
    \/ Receive
    \/ FetchResolves
    \/ FetchRejects
    \/ OrderResolves
    \/ OrderRejects
    \/ NextRequest

SpecPost == PostInit /\ [][PostNext]_vars

\* ------------------------------------------------ successive cycles
\* the requests of an automation that keeps its parameters: valid, in paper
\* or in live mode
CycleBodies ==
    {[malformed |-> FALSE,
      json |-> [symbol |-> RawStr("BTC/USDT"), timeframe |-> RawStr("1h"),
                fastLength |-> RawNum(30), slowLength |-> RawNum(50),
                capital |-> RawNum(100), riskPercent |-> RawNum(1),
                mode |-> RawStr(m)]] : m \in {"paper", "live"}}

\* environments with a known exchange and the key set
CycleEnvs ==
    {e \in Envs : e.exchangeKnown /\ e.CRYPTO_API_KEY /\ e.ENABLE_LIVE_TRADING # Undefined}

CyclesInit == PostInit /\ env \in CycleEnvs

CycleReceive == Receive /\ body' \in CycleBodies

\* the handler has answered; the next cycle finds nothing of this one, and
\* prior remembers, for the comparison only, what this cycle did
CycleEnds ==
    /\ phase = "responded"
    /\ prior' = IF strategy.kind = "return"
                THEN [action |-> strategy.value.action,
                      reason |-> strategy.value.reason[1],
                      transmitted |-> \E i \in DOMAIN trace : trace[i][1] = "createOrder"]
                ELSE NoPrior
    /\ phase' = "idle"
    /\ body' = NoBody
    /\ config' = NoConfig
    /\ candles' = <<>>
    /\ strategy' = NotCalled
    /\ suggestion' = NotCalled
    /\ execution' = Undefined
    /\ response' = NoResponse
    /\ trace' = <<>>
    /\ UNCHANGED <<smaCall, env, other, dashVars>>

CyclesNext ==
    \/ CycleReceive
    \/ FetchResolves
    \/ FetchRejects
    \/ OrderResolves
    \/ OrderRejects
    \/ CycleEnds

SpecCycles == CyclesInit /\ [][CyclesNext]_vars

\* ------------------------------------------------ dashboard (page.tsx)
Modes == {"paper", "live"}
Intervals == {1, 5, 15}  \* the options of the minutes select

\* the StrategyResponse bodies a run may receive, as far as the page reads them
Payloads ==
    {[action |-> "buy", reason |-> "Bullish crossover detected", submitted |-> TRUE],
     [action |-> "hold", reason |-> "No actionable crossover detected.", submitted |-> FALSE]}

\* a log entry without its random id and its timestamp
LogEntry(action, status, message, m) ==
    [action |-> action, status |-> status, message |-> message, mode |-> m]

\* appendLog placing the entry behind the existing ones
appendLogLast(existing, entry) == existing \o <<entry>>

\* setLogs((existing) => [{ id, ...entry }, ...existing])
appendLog(existing, entry) == <<entry>> \o existing

\* a guard that lets every call through
guardAlwaysPasses(flag) == TRUE

\* if (runningRef.current) return;  -- TRUE when the call goes on
guardPasses(flag) == ~flag

removeAt(seq, i) == SubSeq(seq, 1, i - 1) \o SubSeq(seq, i + 1, Len(seq))

\* a call of runStrategy up to its first await; m is the mode of its closure
RunStrategy(source, m) ==
    IF guardPasses(runningRef)
    THEN /\ sent < MaxRuns
         /\ runningRef' = TRUE
         /\ isRunning' = TRUE
         /\ runs' = Append(runs, [pc |-> "fetch", mode |-> m])
         /\ sent' = sent + 1
         /\ trigger' = [source |-> source, outcome |-> "admitted"]
         /\ UNCHANGED <<logs, lastResponse>>
    ELSE /\ trigger' = [source |-> source, outcome |-> "dropped"]
         /\ UNCHANGED <<runningRef, isRunning, runs, sent, logs, lastResponse>>

\* the finally block of run i, after entry was appended by the try or the catch
Finish(i, entry) ==
    /\ logs' = appendLog(logs, entry)
    /\ runningRef' = FALSE
    /\ isRunning' = FALSE
    /\ runs' = removeAt(runs, i)
    /\ UNCHANGED <<uiMode, autoTrading, autoInterval, timers, sent, trigger>>
    /\ UNCHANGED <<serverVars, other, prior>>

\* the Run Strategy button
ClickRun ==
    /\ RunStrategy("button", uiMode)
    /\ UNCHANGED <<uiMode, autoTrading, autoInterval, timers>>
    /\ UNCHANGED <<serverVars, other, prior>>

\* an interval timer fires the callback of the effect that set it
TimerTick ==
    /\ \E i \in DOMAIN timers : RunStrategy("timer", timers[i].mode)
    /\ UNCHANGED <<uiMode, autoTrading, autoInterval, timers>>
    /\ UNCHANGED <<serverVars, other, prior>>

\* a cleanup that leaves the timer of its effect running
cleanupNone(auto) == timers

\* the cleanup of the effect that ran under auto: clearInterval of its timer
cleanup(auto) == IF auto THEN SubSeq(timers, 1, Len(timers) - 1) ELSE timers

\* the effect of page.tsx:266-276 running after a render with these values
Effect(auto, minutes, m) ==
    IF auto
    THEN /\ RunStrategy("effect", m)
         /\ timers' = Append(cleanup(autoTrading), [period |-> minutes * 60 * 1000, mode |-> m])
    ELSE /\ timers' = cleanup(autoTrading)
         /\ UNCHANGED <<runningRef, isRunning, runs, sent, logs, lastResponse, trigger>>

\* the auto-run checkbox
ToggleAuto ==
    /\ autoTrading' = ~autoTrading
    /\ Effect(~autoTrading, autoInterval, uiMode)
    /\ UNCHANGED <<uiMode, autoInterval>>
    /\ UNCHANGED <<serverVars, other, prior>>

\* a strategy parameter changes: runStrategy is a new closure, the effect re-runs
ChangeParam ==
    /\ \E m \in Modes \ {uiMode} :
          /\ uiMode' = m
          /\ Effect(autoTrading, autoInterval, m)
    /\ UNCHANGED <<autoTrading, autoInterval>>
    /\ UNCHANGED <<serverVars, other, prior>>

\* the minutes select changes
ChangeInterval ==
    /\ \E n \in Intervals \ {autoInterval} :
          /\ autoInterval' = n
          /\ Effect(autoTrading, n, uiMode)
    /\ UNCHANGED <<uiMode, autoTrading>>
    /\ UNCHANGED <<serverVars, other, prior>>

\* the Clear Log button
ClearLog ==
    /\ logs # <<>>
    /\ logs' = <<>>
    /\ UNCHANGED <<uiMode, autoTrading, autoInterval, timers, runningRef, isRunning,
                   lastResponse, runs, sent, trigger>>
    /\ UNCHANGED <<serverVars, other, prior>>

\* fetch resolves: on to response.text() when !response.ok, else to response.json()
FetchAnswered ==
    /\ \E i \in DOMAIN runs, ok \in BOOLEAN :
          /\ runs[i].pc = "fetch"
          /\ runs' = [runs EXCEPT ![i].pc = IF ok THEN "json" ELSE "text"]
    /\ UNCHANGED <<uiMode, autoTrading, autoInterval, timers, runningRef, isRunning,
                   logs, lastResponse, sent, trigger>>
    /\ UNCHANGED <<serverVars, other, prior>>

\* fetch, response.text() or response.json() rejects: catch, then finally
AwaitRejects ==
    \E i \in DOMAIN runs :
        /\ lastResponse' = lastResponse
        /\ Finish(i, LogEntry("hold", "error", "Failed to fetch", runs[i].mode))

\* response.text() of a non-OK answer resolves: the error entry, return, finally
TextResolves ==
    \E i \in DOMAIN runs :
        /\ runs[i].pc = "text"
        /\ lastResponse' = lastResponse
        /\ Finish(i, LogEntry("hold", "error", "{\"error\":\"...\"}", runs[i].mode))

\* response.json() resolves: setLastResponse, the success entry, finally
\* (refreshMarket, when the order was submitted, only revalidates the chart)
JsonResolves ==
    \E i \in DOMAIN runs, payload \in Payloads :
        /\ runs[i].pc = "json"
        /\ lastResponse' = Some(payload)
        /\ Finish(i, LogEntry(payload.action, "success", payload.reason, runs[i].mode))

DashInit ==
    /\ phase = "idle"
    /\ candles = <<>>
    /\ config = NoConfig
    /\ strategy = NotCalled
    /\ suggestion = NotCalled
    /\ smaCall = NotCalled
    /\ env = NoEnv
    /\ body = NoBody
    /\ execution = Undefined
    /\ response = NoResponse
    /\ trace = <<>>
    /\ other = NoOther
    /\ prior = NoPrior
    /\ DashIdle

DashNext ==
    \/ ClickRun
    \/ TimerTick
    \/ ToggleAuto
    \/ ChangeParam
    \/ ChangeInterval
    \/ ClearLog
    \/ FetchAnswered
    \/ AwaitRejects
    \/ TextResolves
    \/ JsonResolves

SpecDash == DashInit /\ [][DashNext]_vars

\* ------------------------------------------------ the core, called directly
Init ==
    /\ phase = "input"
    /\ candles \in CandleSeqs
    /\ config \in Configs
    /\ strategy = NotCalled
    /\ suggestion = NotCalled
    /\ smaCall = NotCalled
    /\ env = NoEnv
    /\ body = NoBody
    /\ execution = Undefined
    /\ response = NoResponse
    /\ trace = <<>>
    /\ ExtInit

CallEvaluate ==
    /\ phase = "input"
    /\ strategy' = evaluateStrategy(candles, config)
    /\ phase' = "evaluated"
    /\ UNCHANGED <<candles, config, suggestion, smaCall>>
    /\ UNCHANGED <<env, body, execution, response, trace>>
    /\ UNCHANGED extVars

CallBuildOrder ==
    /\ phase = "evaluated"
    /\ strategy.kind = "return"
    /\ suggestion' = Return(buildOrder(strategy.value))
    /\ phase' = "built"
    /\ UNCHANGED <<candles, config, strategy, smaCall>>
    /\ UNCHANGED <<env, body, execution, response, trace>>
    /\ UNCHANGED extVars

CallSma ==
    /\ phase = "input"
    /\ \E period \in {config.fastLength, config.slowLength} :
          smaCall' = [period |-> period,
                      values |-> [i \in 1..Len(candles) |-> candles[i].close],
                      outcome |-> simpleMovingAverage(
                                     [i \in 1..Len(candles) |-> candles[i].close], period)]
    /\ phase' = "sma"
    /\ UNCHANGED <<candles, config, strategy, suggestion>>
    /\ UNCHANGED <<env, body, execution, response, trace>>
    /\ UNCHANGED extVars

Next == CallEvaluate \/ CallBuildOrder \/ CallSma

Spec == Init /\ [][Next]_vars

\* ------------------------------------------------ two calls side by side
\* capital from -10 to 25 and riskPercent from -1 % to 150 %, on one bar
SizingConfigs ==
    [symbol : {"BTC/USDT"}, timeframe : {"1h"}, mode : {"paper"},
     fastLength : {1}, slowLength : {1},
     capital : {0 - 100, 100, 105, 250},
     riskPercent : {0 - 10, 0, 1, 5, 1000, 1001, 1500}]

SizingInit ==
    /\ phase = "input"
    /\ \E p \in Prices : candles = <<Candle(p)>>
    /\ config \in SizingConfigs
    /\ strategy = NotCalled
    /\ suggestion = NotCalled
    /\ smaCall = NotCalled
    /\ env = NoEnv
    /\ body = NoBody
    /\ execution = Undefined
    /\ response = NoResponse
    /\ trace = <<>>
    /\ \E p \in Prices, c \in SizingConfigs :
          other = [called |-> FALSE, candles |-> <<Candle(p)>>, config |-> c,
                   strategy |-> NotCalled]
    /\ prior = NoPrior
    /\ DashIdle

\* the second call of evaluateStrategy, on its own candles and config
CallEvaluateOther ==
    /\ ~other.called
    /\ other # NoOther
    /\ other' = [other EXCEPT !.called = TRUE,
                              !.strategy = evaluateStrategy(other.candles, other.config)]
    /\ UNCHANGED <<serverVars, prior, dashVars>>

SizingNext == CallEvaluate \/ CallEvaluateOther

SpecSizing == SizingInit /\ [][SizingNext]_vars

\* ------------------------------------------------ bars with free lows and highs
\* an OHLCV bar whose low and high lie one or two below and above the close
Bars ==
    {[close |-> c, low |-> c - dl, high |-> c + dh] :
        c \in 2..3, dl \in 1..2, dh \in 1..2}

StopsConfigs ==
    [symbol : {"BTC/USDT"}, timeframe : {"1h"}, mode : {"paper"},
     fastLength : 1..MaxPeriod, slowLength : 1..MaxPeriod,
     capital : {100}, riskPercent : {5}]

StopsInit ==
    /\ phase = "input"
    /\ candles \in SeqsUpTo(Bars, MaxBars)
    /\ config \in StopsConfigs
    /\ strategy = NotCalled
    /\ suggestion = NotCalled
    /\ smaCall = NotCalled
    /\ env = NoEnv
    /\ body = NoBody
    /\ execution = Undefined
    /\ response = NoResponse
    /\ trace = <<>>
    /\ ExtInit

StopsNext == CallEvaluate \/ CallBuildOrder

SpecStops == StopsInit /\ [][StopsNext]_vars

\* ------------------------------------------------ bars with non-finite fields
NonFinite == {NaN, PosInf, NegInf}

\* the bars around a close of 1 or 2, each also with its close, its low or
\* its high replaced by a non-finite number, and a bar that is NaN throughout
XBars ==
    {Candle(c) : c \in 1..2}
    \cup {[Candle(c) EXCEPT !.close = x] : c \in 1..2, x \in NonFinite}
    \cup {[Candle(c) EXCEPT !.low = x] : c \in 1..2, x \in NonFinite}
    \cup {[Candle(c) EXCEPT !.high = x] : c \in 1..2, x \in NonFinite}
    \cup {[close |-> NaN, low |-> NaN, high |-> NaN]}

XConfigs ==
    [symbol : {"BTC/USDT"}, timeframe : {"1h"}, mode : {"paper"},
     fastLength : 1..2, slowLength : 1..2,
     capital : {100}, riskPercent : {5}]

XInit ==
    /\ phase = "input"
    /\ candles \in SeqsUpTo(XBars, MaxXBars)
    /\ config \in XConfigs
    /\ strategy = NotCalled
    /\ suggestion = NotCalled
    /\ smaCall = NotCalled
    /\ env = NoEnv
    /\ body = NoBody
    /\ execution = Undefined
    /\ response = NoResponse
    /\ trace = <<>>
    /\ ExtInit

XNext == CallEvaluate \/ CallBuildOrder

SpecNonFinite == XInit /\ [][XNext]_vars

\* ======================================================== claims, core
NoSignal == "No actionable crossover detected."
InvalidPeriod == "SMA period must be greater than zero"
NoData == "No OHLCV data available for strategy evaluation."

Evaluated == phase \in {"evaluated", "built"}
Returned == Evaluated /\ strategy.kind = "return"

RECURSIVE CloseTotal(_, _)
\* sum of the closes of candles from..to (1-based, inclusive), read off the input
CloseTotal(from, to) ==
    IF from > to THEN 0 ELSE candles[to].close + CloseTotal(from, to - 1)

\* the average over the P closes ending at 1-based index i exists
HasMean(i, P) == i >= 1 /\ P >= 1 /\ i >= P
\* mean of the P closes ending at i, compared with the mean of the Q closes ending at i
MeanGt(i, P, Q) == CloseTotal(i - P + 1, i) * Q > CloseTotal(i - Q + 1, i) * P
MeanLt(i, P, Q) == CloseTotal(i - P + 1, i) * Q < CloseTotal(i - Q + 1, i) * P

\* the action and the head of the reason that the priority list of C3 prescribes
C3_Expected ==
    LET n == Len(candles)
        F == config.fastLength
        S == config.slowLength
        cur == HasMean(n, F) /\ HasMean(n, S)
        prev == HasMean(n - 1, F) /\ HasMean(n - 1, S)
    IN  IF cur /\ prev /\ ~MeanGt(n - 1, F, S) /\ MeanGt(n, F, S)
            THEN <<"buy", "Bullish crossover detected">>
        ELSE IF cur /\ prev /\ ~MeanLt(n - 1, F, S) /\ MeanLt(n, F, S)
            THEN <<"sell", "Bearish crossover detected">>
        ELSE IF cur /\ MeanGt(n, F, S)
            THEN <<"buy", "Fast MA remains above slow MA (trend-following continuation).">>
        ELSE IF cur /\ MeanLt(n, F, S)
            THEN <<"sell", "Fast MA remains below slow MA (trend-following continuation).">>
        ELSE <<"hold", NoSignal>>

\* C3: the action and reason returned by evaluateStrategy follow the priority
\* list: bullish crossover (previous fast <= previous slow, current fast >
\* current slow, all four defined), then bearish crossover, then buy
\* continuation, then sell continuation, otherwise hold.
C3_DecisionPriority ==
    Returned =>
        /\ strategy.value.action = C3_Expected[1]
        /\ strategy.value.reason[1] = C3_Expected[2]

\* a bullish crossover whose previous averages were equal
C3_Witness ==
    /\ Returned
    /\ strategy.value.reason[1] = "Bullish crossover detected"
    /\ HasMean(Len(candles) - 1, config.fastLength)
    /\ HasMean(Len(candles) - 1, config.slowLength)
    /\ ~MeanGt(Len(candles) - 1, config.fastLength, config.slowLength)
    /\ ~MeanLt(Len(candles) - 1, config.fastLength, config.slowLength)

\* C4: fewer candles than slowLength (or than fastLength), both periods
\* positive: evaluateStrategy returns hold with the no-signal reason and
\* buildOrder returns no order.
C4_ShortHistoryHolds ==
    (/\ Evaluated
     /\ Len(candles) >= 1
     /\ config.fastLength >= 1 /\ config.slowLength >= 1
     /\ (Len(candles) < config.slowLength \/ Len(candles) < config.fastLength))
    => /\ strategy.kind = "return"
       /\ strategy.value.action = "hold"
       /\ strategy.value.reason = <<NoSignal>>
       /\ (phase = "built" => suggestion = Return(NoOrder))

C4_Witness ==
    /\ phase = "built"
    /\ Len(candles) = 2
    /\ config.fastLength = 1 /\ config.slowLength = 3
    /\ candles[2].close > candles[1].close
    /\ suggestion = Return(NoOrder)

\* C5 (as claimed): a hold result carries neither stopLoss nor takeProfit.
C5_HoldHasNoStops ==
    (Returned /\ strategy.value.action = "hold")
    => (strategy.value.stopLoss = Undefined /\ strategy.value.takeProfit = Undefined)

\* C6 (as claimed): a non-positive latest close gives a result with
\* positionSize 0 and neither stopLoss nor takeProfit.
C6_NonPositivePriceOmitsStops ==
    (/\ Evaluated
     /\ Len(candles) >= 1
     /\ config.fastLength >= 1 /\ config.slowLength >= 1
     /\ candles[Len(candles)].close <= 0)
    => /\ strategy.kind = "return"
       /\ strategy.value.positionSize = 0
       /\ strategy.value.stopLoss = Undefined
       /\ strategy.value.takeProfit = Undefined

\* entry i (1-based) of a moving average of period P over the closes is null
\* exactly below index P, else a rational equal to the mean of the P closes
\* ending at i
AlignedMean(ma, P) ==
    /\ Len(ma) = Len(candles)
    /\ \A i \in 1..Len(ma) :
          /\ (ma[i] = Null) <=> (i - 1 < P - 1)
          /\ (i - 1 >= P - 1) =>
                 /\ Len(ma[i]) = 2
                 /\ ma[i][2] > 0
                 /\ ma[i][1] * P = CloseTotal(i - P + 1, i) * ma[i][2]

\* C7: for period P >= 1 simpleMovingAverage returns one entry per input
\* value, null exactly at indices below P-1 and otherwise the mean of the P
\* values ending there; fastMA and slowMA of a returned evaluation are such
\* sequences over the candles' closes.
C7_MovingAverageShape ==
    /\ (phase = "sma" /\ smaCall.period >= 1) =>
          /\ smaCall.outcome.kind = "return"
          /\ AlignedMean(smaCall.outcome.value, smaCall.period)
    /\ Returned =>
          /\ AlignedMean(strategy.value.fastMA, config.fastLength)
          /\ AlignedMean(strategy.value.slowMA, config.slowLength)

C7_Witness ==
    /\ phase = "sma"
    /\ smaCall.period = 2
    /\ Len(smaCall.values) = 3
    /\ smaCall.outcome.value[1] = Null
    /\ smaCall.outcome.value[3] # Null
    /\ smaCall.values[2] # smaCall.values[3]

\* C8: a period <= 0 makes simpleMovingAverage throw for every input, the
\* empty one included, and makes evaluateStrategy on a non-empty candle
\* sequence throw the same error whichever of the two periods it is.
C8_InvalidPeriodThrows ==
    /\ (phase = "sma" /\ smaCall.period <= 0) =>
          smaCall.outcome = Throw(InvalidPeriod)
    /\ (/\ Evaluated
        /\ Len(candles) >= 1
        /\ (config.fastLength <= 0 \/ config.slowLength <= 0))
       => strategy = Throw(InvalidPeriod)

C8_Witness ==
    /\ Evaluated
    /\ Len(candles) >= 1
    /\ config.fastLength >= 1 /\ config.slowLength <= 0
    /\ strategy = Throw(InvalidPeriod)

\* C9: on an empty candle sequence evaluateStrategy throws NoData whatever
\* the config, non-positive periods included.
C9_EmptyCandlesThrowNoData ==
    (Evaluated /\ Len(candles) = 0) => strategy = Throw(NoData)

C9_Witness ==
    /\ Evaluated
    /\ Len(candles) = 0
    /\ config.fastLength <= 0
    /\ strategy = Throw(NoData)

\* ======================================================== claims, endpoint
SkipReason == "ENABLE_LIVE_TRADING is not set to true. Order not transmitted."

\* the handler called the exchange's createOrder during this request
OrderTransmitted == \E i \in DOMAIN trace : trace[i][1] = "createOrder"

\* C1: createOrder is called only when the built order is non-null (action
\* buy or sell, positionSize > 0), the mode is live and ENABLE_LIVE_TRADING
\* equals "true"; in every other combination no order is transmitted.
C1_OrderOnlyWhenLiveAndEnabled ==
    OrderTransmitted =>
        /\ strategy.kind = "return"
        /\ strategy.value.action \in {"buy", "sell"}
        /\ strategy.value.positionSize > 0
        /\ suggestion.kind = "return" /\ suggestion.value # NoOrder
        /\ config.mode = "live"
        /\ env.ENABLE_LIVE_TRADING = Some("true")

C1_Witness ==
    /\ phase = "ordering"
    /\ OrderTransmitted
    /\ suggestion.value.side = "sell"

\* the request was answered with a result that suggests an order, and no
\* order was transmitted
UntransmittedIntent ==
    /\ phase = "responded"
    /\ response.status = 200
    /\ response.body.suggestion # NoOrder
    /\ ~OrderTransmitted

\* C2 (as claimed): every order intent that is not transmitted, in paper
\* mode as in live mode with the switch off, is answered with an execution
\* record of status skipped that carries a reason.
C2_UntransmittedIsSkipped ==
    UntransmittedIntent =>
        /\ response.body.execution # Undefined
        /\ response.body.execution[1].status = "skipped"
        /\ response.body.execution[1].reason # ""

\* C2 (amended): an order intent in live mode with the switch off is answered
\* with an execution record of status skipped and its reason; an order intent
\* in paper mode is answered with no execution record at all.
C2_SkippedOnlyInLiveMode ==
    UntransmittedIntent =>
        IF config.mode = "live"
        THEN /\ env.ENABLE_LIVE_TRADING # Some("true")
             /\ response.body.execution = Some([status |-> "skipped", reason |-> SkipReason])
        ELSE /\ config.mode = "paper"
             /\ response.body.execution = Undefined

C2_Witness ==
    /\ UntransmittedIntent
    /\ config.mode = "live"
    /\ env.ENABLE_LIVE_TRADING = Some("false")
    /\ response.body.execution[1].status = "skipped"

\* a numeric field of the body, read with Number(value), is a multiple of
\* step tenths between lo and hi tenths
NumberWithin(raw, lo, hi, step) ==
    /\ coerceNumber(raw) # Undefined
    /\ coerceNumber(raw)[1] % step = 0
    /\ coerceNumber(raw)[1] >= lo
    /\ coerceNumber(raw)[1] <= hi

\* a numeric field of the body, read with Number(value), is at least lo tenths
NumberAtLeast(raw, lo) ==
    /\ coerceNumber(raw) # Undefined
    /\ coerceNumber(raw)[1] >= lo

\* the body satisfies every StrategyConfig bound: fastLength an integer in
\* 3..200, slowLength an integer in 5..400, capital >= 10, riskPercent in
\* 0.1..100 (numbers as the schema reads them, with Number(value))
WithinBounds(j) ==
    /\ j.symbol.kind = "string" /\ j.symbol.str # ""
    /\ j.timeframe.kind = "string" /\ j.timeframe.str # ""
    /\ NumberWithin(j.fastLength, 30, 2000, 10)
    /\ NumberWithin(j.slowLength, 50, 4000, 10)
    /\ NumberAtLeast(j.capital, 100)
    /\ NumberWithin(j.riskPercent, 1, 1000, 1)
    /\ \/ j.mode.kind = "undefined"
       \/ j.mode.kind = "string" /\ j.mode.str \in {"paper", "live"}

\* C10: the handler reaches fetchOhlcv, evaluateStrategy and createOrder only
\* for a body that satisfies every StrategyConfig bound, and then runs on the
\* values of that body with mode defaulting to paper; any other body, and
\* malformed JSON, is answered with status 400 and none of the three happens.
C10_PipelineOnlyForValidPayload ==
    (phase # "idle") =>
        IF ~body.malformed /\ WithinBounds(body.json)
        THEN /\ trace # <<>> /\ trace[1][1] = "fetchOhlcv"
             /\ config.symbol = body.json.symbol.str
             /\ config.timeframe = body.json.timeframe.str
             /\ config.fastLength * 10 = coerceNumber(body.json.fastLength)[1]
             /\ config.slowLength * 10 = coerceNumber(body.json.slowLength)[1]
             /\ config.capital = coerceNumber(body.json.capital)[1]
             /\ config.riskPercent = coerceNumber(body.json.riskPercent)[1]
             /\ config.mode = (IF body.json.mode.kind = "undefined" THEN "paper"
                               ELSE body.json.mode.str)
        ELSE /\ phase = "responded"
             /\ response.status = 400
             /\ trace = <<>>
             /\ candles = <<>>
             /\ strategy = NotCalled
             /\ suggestion = NotCalled
             /\ execution = Undefined

\* a body that breaks one bound only (slowLength 401) was refused
C10_Witness ==
    /\ phase = "responded"
    /\ response.status = 400
    /\ ~body.malformed
    /\ body.json.symbol = RawStr("BTC/USDT")
    /\ body.json.timeframe = RawStr("1h")
    /\ body.json.fastLength = RawNum(30)
    /\ body.json.slowLength = RawNum(4010)
    /\ body.json.capital = RawNum(100)
    /\ body.json.riskPercent = RawNum(1)
    /\ body.json.mode = RawMissing

\* ======================================================== claims, sizing
\* both calls returned a computation
BothSized ==
    /\ Returned
    /\ other # NoOther /\ other.called /\ other.strategy.kind = "return"

Size1 == strategy.value.positionSize
Size2 == other.strategy.value.positionSize
Price1 == strategy.value.latestPrice
Price2 == other.strategy.value.latestPrice

\* C11: the risk fraction is riskPercent/100 clamped into [0, 1]: at a
\* positive latest price every riskPercent >= 100 gives the positionSize of
\* riskPercent = 100 (same capital, same price), and every riskPercent <= 0
\* gives positionSize 0.
C11_RiskClamped ==
    /\ (Returned /\ Price1 > 0 /\ config.riskPercent <= 0) => Size1 = 0
    /\ (/\ BothSized
        /\ Price1 > 0 /\ Price2 = Price1
        /\ other.config.capital = config.capital
        /\ config.riskPercent >= 1000 /\ other.config.riskPercent = 1000)
       => Size1 = Size2

C11_Witness ==
    /\ BothSized
    /\ Price1 = 1 /\ Price2 = 1
    /\ config.capital = 105 /\ other.config.capital = 105
    /\ config.riskPercent = 1500 /\ other.config.riskPercent = 1000
    /\ Size1 = 10500000

\* positionSize does not fall when capital (>= 10) or riskPercent rises at a
\* fixed price
MonotoneInCapitalAndRisk ==
    /\ (/\ Price1 = Price2
        /\ config.riskPercent = other.config.riskPercent
        /\ 100 <= config.capital /\ config.capital <= other.config.capital)
       => Size1 <= Size2
    /\ (/\ Price1 = Price2
        /\ config.capital = other.config.capital /\ config.capital >= 100
        /\ config.riskPercent <= other.config.riskPercent)
       => Size1 <= Size2

SameCapitalAndRisk ==
    /\ config.capital = other.config.capital /\ config.capital >= 100
    /\ config.riskPercent = other.config.riskPercent

\* C12 (as claimed): positionSize is non-decreasing in capital and in
\* riskPercent at a fixed price, and non-increasing in latestPrice over all
\* prices p1 <= p2, non-positive prices included.
C12_MonotoneOverAllPrices ==
    BothSized =>
        /\ MonotoneInCapitalAndRisk
        /\ (SameCapitalAndRisk /\ Price1 <= Price2) => Size1 >= Size2

\* C12 (amended): the same, with the price comparison over positive prices
\* only; at a non-positive price the size is 0.
C12_MonotoneOverPositivePrices ==
    BothSized =>
        /\ MonotoneInCapitalAndRisk
        /\ (SameCapitalAndRisk /\ 0 < Price1 /\ Price1 <= Price2) => Size1 >= Size2
        /\ (Price1 <= 0) => Size1 = 0

C12_Witness ==
    /\ BothSized
    /\ SameCapitalAndRisk
    /\ config.riskPercent = 5
    /\ 0 < Price1 /\ Price1 < Price2
    /\ Size1 > Size2 /\ Size2 > 0

\* ======================================================== claims, order
\* C13: buildOrder returns no order exactly when the action is hold or
\* positionSize <= 0; otherwise the order has side = action, type market,
\* size = positionSize, price = latestPrice and the computation's stopLoss
\* and takeProfit unchanged; the computation itself is left as it was.
C13_OrderExactlyWhenActionable ==
    (phase = "built") =>
        LET c == strategy.value
            o == suggestion.value
        IN  /\ strategy = evaluateStrategy(candles, config)
            /\ (o = NoOrder) <=> (c.action = "hold" \/ c.positionSize <= 0)
            /\ (o # NoOrder) =>
                  /\ o.side = c.action /\ o.side \in {"buy", "sell"}
                  /\ o.type = "market"
                  /\ o.size = c.positionSize /\ o.size > 0
                  /\ o.price = c.latestPrice
                  /\ o.stopLoss = c.stopLoss
                  /\ o.takeProfit = c.takeProfit

\* a buy on a non-positive price: sized 0, so no order
C13_Witness ==
    /\ phase = "built"
    /\ strategy.value.action = "buy"
    /\ strategy.value.latestPrice <= 0
    /\ strategy.value.positionSize = 0
    /\ suggestion.value = NoOrder

\* ======================================================== claims, stops
\* the last min(slowLength, N) of the N candles supplied
TrailingWindow ==
    LET N == Len(candles)
        k == Min(config.slowLength, N)
    IN  {candles[i] : i \in (N - k + 1)..N}

WindowMinLow ==
    CHOOSE m \in {b.low : b \in TrailingWindow} :
        \A b \in TrailingWindow : m <= b.low

WindowMaxHigh ==
    CHOOSE m \in {b.high : b \in TrailingWindow} :
        \A b \in TrailingWindow : m >= b.high

\* C14: the bounds come from the last min(slowLength, N) candles: a buy has
\* stopLoss = 0.99 * (minimum low of the window) and takeProfit = 1.03 *
\* (latest close); a sell has stopLoss = 1.01 * (maximum high of the window)
\* and takeProfit = 0.97 * (latest close); older candles play no part.
C14_StopsFromTrailingWindow ==
    Returned =>
        LET c == strategy.value
        IN  /\ c.latestPrice = candles[Len(candles)].close
            /\ (c.action = "buy") =>
                  /\ c.stopLoss = Some(99 * WindowMinLow)
                  /\ c.takeProfit = Some(103 * c.latestPrice)
            /\ (c.action = "sell") =>
                  /\ c.stopLoss = Some(101 * WindowMaxHigh)
                  /\ c.takeProfit = Some(97 * c.latestPrice)

\* a buy whose oldest candle, outside the window, has the lowest low
C14_Witness ==
    /\ Returned
    /\ strategy.value.action = "buy"
    /\ Len(candles) > config.slowLength
    /\ candles[1].low < WindowMinLow
    /\ strategy.value.stopLoss = Some(99)
    /\ strategy.value.takeProfit = Some(309)

\* ======================================================== claims, credentials
AuthMessage == "Live trading requires CRYPTO_API_KEY and CRYPTO_API_SECRET to be set."

MissingCredentials == ~env.CRYPTO_API_KEY \/ ~env.CRYPTO_API_SECRET

\* the request reached the point of transmitting: a non-null order intent in
\* live mode with the switch on
LiveTransmission ==
    /\ suggestion.kind = "return" /\ suggestion.value # NoOrder
    /\ config.mode = "live"
    /\ env.ENABLE_LIVE_TRADING = Some("true")

AnsweredWithError(message) ==
    /\ phase = "responded"
    /\ response.status = 500
    /\ response.body.error = message

\* C15: with CRYPTO_API_KEY or CRYPTO_API_SECRET missing, the candle fetch
\* and the evaluation still run and a request that does not transmit (paper
\* mode, or live mode with the switch off, or no order intent) is answered
\* with its result; a request in live mode with the switch on and a non-null
\* order intent is answered with the credentials error, and createOrder is
\* never called.
C15_CredentialsOnlyForLiveTransmission ==
    MissingCredentials =>
        /\ ~OrderTransmitted /\ phase # "ordering"
        /\ AnsweredWithError(AuthMessage) => LiveTransmission
        /\ (phase = "responded" /\ LiveTransmission) => AnsweredWithError(AuthMessage)
        /\ (phase = "responded" /\ strategy.kind = "return" /\ ~LiveTransmission) =>
              /\ response.status = 200
              /\ response.body.strategy = strategy.value
              /\ <<"evaluateStrategy">> \in {trace[i] : i \in DOMAIN trace}

\* the key is set and the secret is not: the live request ends in the error
C15_Witness ==
    /\ env.CRYPTO_API_KEY /\ ~env.CRYPTO_API_SECRET
    /\ LiveTransmission
    /\ AnsweredWithError(AuthMessage)
    /\ ~OrderTransmitted

\* ======================================================== claims, non-finite
AbsentOrFinite(field) == field = Undefined \/ field[1] \notin NonFinite

AllFinite ==
    \A i \in DOMAIN candles :
        /\ candles[i].close \notin NonFinite
        /\ candles[i].low \notin NonFinite
        /\ candles[i].high \notin NonFinite

\* C16: stopLoss and takeProfit of a returned computation are each absent or
\* finite; a non-finite latest close leaves takeProfit absent, a NaN or
\* infinite extreme of the window leaves stopLoss absent, finite candles
\* leave both present; the order built from the computation carries the same
\* fields.
C16_StopsAbsentOrFinite ==
    /\ Returned =>
          LET c == strategy.value
          IN  /\ AbsentOrFinite(c.stopLoss)
              /\ AbsentOrFinite(c.takeProfit)
              /\ (c.latestPrice \in NonFinite) => c.takeProfit = Undefined
              /\ (c.action = "buy" /\ \E b \in TrailingWindow : b.low \in {NaN, NegInf})
                    => c.stopLoss = Undefined
              /\ (c.action # "buy" /\ \E b \in TrailingWindow : b.high \in {NaN, PosInf})
                    => c.stopLoss = Undefined
              /\ AllFinite => (c.stopLoss # Undefined /\ c.takeProfit # Undefined)
    /\ (phase = "built" /\ suggestion.value # NoOrder) =>
          /\ AbsentOrFinite(suggestion.value.stopLoss)
          /\ AbsentOrFinite(suggestion.value.takeProfit)
          /\ suggestion.value.stopLoss = strategy.value.stopLoss
          /\ suggestion.value.takeProfit = strategy.value.takeProfit

\* a buy on finite closes whose window holds a low of -Infinity: the order is
\* built with a finite takeProfit and no stopLoss
C16_Witness ==
    /\ phase = "built"
    /\ suggestion.value # NoOrder
    /\ suggestion.value.side = "buy"
    /\ \E b \in TrailingWindow : b.low = NegInf
    /\ suggestion.value.stopLoss = Undefined
    /\ suggestion.value.takeProfit = Some(206)

\* ======================================================== claims, responses
ResultFields == {"strategy", "suggestion", "execution", "meta"}

ErrorOnly ==
    /\ response.status \in {400, 500}
    /\ "error" \in DOMAIN response.body
    /\ DOMAIN response.body \cap ResultFields = {}

CompleteResult ==
    /\ response.status = 200
    /\ DOMAIN response.body = ResultFields
    /\ strategy.kind = "return" /\ response.body.strategy = strategy.value
    /\ suggestion.kind = "return" /\ response.body.suggestion = suggestion.value
    /\ response.body.execution = execution

Invoked(name) == \E i \in DOMAIN trace : trace[i][1] = name

\* C17: every response is either an error alone or a complete result without
\* an error: a failed candle fetch is answered with an error and
\* evaluateStrategy was never called, a throwing evaluation is answered with
\* its message alone, and a failed createOrder after a successful evaluation
\* is answered with an error that carries none of the computation.
C17_ErrorOrResultNeverBoth ==
    (phase = "responded") =>
        /\ ErrorOnly \/ CompleteResult
        /\ ~(ErrorOnly /\ CompleteResult)
        /\ (Invoked("fetchOhlcv") /\ ~Invoked("evaluateStrategy")) =>
              (ErrorOnly /\ response.status = 500 /\ strategy = NotCalled)
        /\ (strategy.kind = "throw") =>
              (ErrorOnly /\ response.body.error = strategy.message)
        /\ (OrderTransmitted /\ execution = Undefined) =>
              (ErrorOnly /\ strategy.kind = "return")

\* createOrder was called after a successful evaluation and failed
C17_Witness ==
    /\ phase = "responded"
    /\ OrderTransmitted
    /\ strategy.kind = "return" /\ strategy.value.action = "buy"
    /\ response = Json(500, [error |-> "createOrder failed"])

\* ======================================================== claims, cycles
\* this cycle's evaluation returned
CycleEvaluated == phase \in {"ordering", "responded"} /\ strategy.kind = "return"

\* fast mean above (below) slow mean at the last index of this cycle's candles
FastAbove ==
    LET n == Len(candles)
    IN  /\ HasMean(n, config.fastLength) /\ HasMean(n, config.slowLength)
        /\ MeanGt(n, config.fastLength, config.slowLength)
FastBelow ==
    LET n == Len(candles)
    IN  /\ HasMean(n, config.fastLength) /\ HasMean(n, config.slowLength)
        /\ MeanLt(n, config.fastLength, config.slowLength)

Continuation ==
    {"Fast MA remains above slow MA (trend-following continuation).",
     "Fast MA remains below slow MA (trend-following continuation)."}

\* C18 (amended): every cycle is decided by its own candles alone: fast above
\* (below) slow at the last index returns buy (sell), with the crossover
\* reason whenever that cycle's own previous index had fast <= slow (>=), a
\* positive positionSize yields a non-null order intent, and in live mode
\* with the switch on and the credentials set createOrder is called, whatever
\* the cycle before did.
C18_EveryCycleSignals ==
    CycleEvaluated =>
        /\ FastAbove => strategy.value.action = "buy"
        /\ FastBelow => strategy.value.action = "sell"
        /\ strategy.value.reason[1] = C3_Expected[2]
        /\ (strategy.value.action # "hold" /\ strategy.value.positionSize > 0) =>
              (suggestion.value # NoOrder /\ suggestion.value.side = strategy.value.action)
        /\ (/\ suggestion.value # NoOrder
            /\ config.mode = "live"
            /\ env.ENABLE_LIVE_TRADING = Some("true")
            /\ ~MissingCredentials)
           => OrderTransmitted

\* C18 (as claimed): the same, and a cycle that repeats the action of the
\* cycle before it carries the continuation reason, the crossover reason
\* appearing at most in the first cycle of the run.
C18_CrossoverOnlyInFirstCycle ==
    /\ C18_EveryCycleSignals
    /\ (/\ CycleEvaluated
        /\ strategy.value.action # "hold"
        /\ prior.action = strategy.value.action)
       => strategy.value.reason[1] \in Continuation

\* a second buy cycle in a row, again with an order sent and again with the
\* crossover reason
C18_Witness ==
    /\ prior.action = "buy" /\ prior.transmitted
    /\ phase = "ordering"
    /\ FastAbove
    /\ OrderTransmitted
    /\ strategy.value.reason[1] = "Bullish crossover detected"

\* ======================================================== claims, dashboard
\* C19: at most one strategy request is in flight: while a run is in
\* progress no call of runStrategy sends a request or starts a run, a dropped
\* call (button, timer or effect) leaves the log, the flag and the run in
\* progress as they were, and a request is only ever sent by a call that
\* found the flag clear (nothing is queued).
C19_SingleRunInFlight ==
    /\ [](Len(runs) <= 1 /\ (runs # <<>> => runningRef))
    /\ [][runningRef => (sent' = sent /\ Len(runs') <= Len(runs))]_vars
    /\ [][(trigger' # trigger /\ trigger'.outcome = "dropped") =>
            (/\ runningRef /\ runningRef'
             /\ runs' = runs /\ logs' = logs /\ sent' = sent
             /\ isRunning' = isRunning)]_vars
    /\ [][(runningRef /\ ~runningRef') => Len(runs') < Len(runs)]_vars
    /\ [][sent' # sent =>
            (~runningRef /\ sent' = sent + 1 /\ trigger'.outcome = "admitted")]_vars

\* the timer fired while the run of an earlier trigger was in progress
C19_Witness ==
    /\ trigger = [source |-> "timer", outcome |-> "dropped"]
    /\ Len(runs) = 1 /\ runs[1].pc = "json"
    /\ runningRef
    /\ sent = 1
    /\ logs = <<>>

\* C20: a run that passed the guard leaves, on each exit path, the flag
\* cleared and exactly one entry at the head of the log: a success entry with
\* the returned action after a parsed OK response, an error entry with action
\* hold after a non-OK response or a rejected await; no other step appends to
\* the log, and with no run in progress the flag is clear.
C20_EveryRunClearsFlagAndLogsOnce ==
    /\ [](runs = <<>> => (~runningRef /\ ~isRunning))
    /\ [][Len(runs') < Len(runs) =>
            (/\ ~runningRef' /\ ~isRunning'
             /\ Len(logs') = Len(logs) + 1
             /\ Tail(logs') = logs
             /\ \/ /\ Head(logs').status = "success"
                   /\ runs[1].pc = "json"
                   /\ lastResponse' # <<>>
                   /\ Head(logs').action = lastResponse'[1].action
                \/ /\ Head(logs').status = "error"
                   /\ Head(logs').action = "hold"
             /\ runs[1].pc = "text" => Head(logs').status = "error")]_vars
    /\ [][Len(runs') >= Len(runs) => (logs' = logs \/ logs' = <<>>)]_vars

\* after a run that ended on a non-OK response, with its one entry, the next
\* trigger was admitted
C20_Witness ==
    /\ sent = 2
    /\ Len(runs) = 1
    /\ trigger.outcome = "admitted"
    /\ Len(logs) = 1
    /\ Head(logs).status = "error" /\ Head(logs).message # "Failed to fetch"

\* ======================================================== claims, auto-run
\* C21: while auto-run is on exactly one interval timer is set, its period
\* the selected minutes (in ms) and its callback the current runStrategy;
\* while it is off none is set.  Turning auto-run on calls runStrategy at
\* once (admitted unless a run is in progress) and sets the one timer; every
\* change of the checkbox, the minutes or a parameter leaves no earlier timer
\* behind; a request sent by a timer call is only ever sent with auto-run on.
C21_OneTimerWhileAutoRun ==
    /\ [](IF autoTrading
          THEN timers = <<[period |-> autoInterval * 60000, mode |-> uiMode]>>
          ELSE timers = <<>>)
    /\ [][(~autoTrading /\ autoTrading') =>
            (/\ trigger'.source = "effect"
             /\ IF runningRef
                THEN trigger'.outcome = "dropped" /\ sent' = sent
                ELSE trigger'.outcome = "admitted" /\ sent' = sent + 1
             /\ Len(timers') = 1)]_vars
    /\ [][timers' # timers =>
            (/\ Len(timers') <= 1
             /\ \A i \in DOMAIN timers' : \A j \in DOMAIN timers : timers'[i] # timers[j])]_vars
    /\ [][(sent' # sent /\ trigger'.source = "timer") =>
            (autoTrading /\ autoTrading' /\ timers # <<>>)]_vars

\* auto-run on after the minutes and the mode were changed: the one timer has
\* the new period and the new closure, and a timer call was admitted
C21_Witness ==
    /\ autoTrading
    /\ autoInterval = 15 /\ uiMode = "live"
    /\ timers = <<[period |-> 900000, mode |-> "live"]>>
    /\ trigger = [source |-> "timer", outcome |-> "admitted"]
    /\ sent = 2

====
